---- MODULE Spec2Model ----
(***************************************************************************)
(* User repository of realworld-aws-lambda-dynamodb-go:                    *)
(*   service/UserService.go  PutUser, UpdateUser, buildUserUpdateExpression*)
(*                           GetUserByEmail, GetUsernameByEmail,           *)
(*                           GetUserByUsername, GetCurrentUser             *)
(*   route/user-put/main.go  Handle                                        *)
(* The store is two DynamoDB tables: the user table keyed by Username and  *)
(* the email-user table keyed by Email.                                    *)
(***************************************************************************)
EXTENDS Integers, Sequences, FiniteSets, TLC

VARIABLES userTable, emailUserTable, pc, oldUser, last

vars == <<userTable, emailUserTable, pc, oldUser, last>>

(***************************************************************************)
(* Bounds of the model.                                                    *)
(***************************************************************************)
NumUsernames == 2
NumEmails == 3
NumCallers == 2

Usernames == {"u" \o ToString(i) : i \in 1..NumUsernames}
Emails == {"e" \o ToString(i) : i \in 1..NumEmails}
Passwords == {"p1", "p2"}
Images == {"", "img"}
Bios == {"", "bio"}
Callers == 1..NumCallers

(***************************************************************************)
(* Go values.  A []byte is nil or a byte sequence.                         *)
(***************************************************************************)
NilBytes == [isNil |-> TRUE, bytes |-> <<>>]

Bytes(b) == [isNil |-> FALSE, bytes |-> b]

\* bytes.Equal: nil and the empty slice are equal
BytesEqual(a, b) == a.bytes = b.bytes

\* model.User{}
ZeroUser ==
  [Username |-> "", Email |-> "", PasswordHash |-> NilBytes, Image |-> "", Bio |-> ""]

(***************************************************************************)
(* Errors.                                                                 *)
(***************************************************************************)
NoError == [type |-> "nil", field |-> "", msg |-> ""]

NewInputError(field, msg) == [type |-> "InputError", field |-> field, msg |-> msg]

\* the error of a transaction cancelled because a condition check failed
TransactionCanceled ==
  [type |-> "TransactionCanceledException", field |-> "", msg |-> "ConditionalCheckFailed"]

Unauthorized == [type |-> "Unauthorized", field |-> "", msg |-> ""]

(***************************************************************************)
(* Partial functions: a table maps the keys present to items, an item maps *)
(* the attributes present to attribute values.                             *)
(***************************************************************************)
Empty == [k \in {} |-> 0]

With(f, k, v) == [x \in (DOMAIN f) \cup {k} |-> IF x = k THEN v ELSE f[x]]

Without(f, k) == [x \in (DOMAIN f) \ {k} |-> f[x]]

(***************************************************************************)
(* dynamodbattribute: Go value <-> attribute value.  Empty strings and     *)
(* empty byte slices are encoded as NULL; the omitempty fields Image and   *)
(* Bio are left out of the item when empty.                                *)
(***************************************************************************)
NullAttr == [NULL |-> TRUE]

MarshalString(s) == IF s = "" THEN NullAttr ELSE [S |-> s]

MarshalBytes(b) == IF Len(b.bytes) = 0 THEN NullAttr ELSE [B |-> b.bytes]

UnmarshalString(item, name) ==
  IF name \in DOMAIN item /\ "S" \in DOMAIN item[name] THEN item[name].S ELSE ""

UnmarshalBytes(item, name) ==
  IF name \in DOMAIN item /\ "B" \in DOMAIN item[name] THEN Bytes(item[name].B) ELSE NilBytes

OmitEmpty(item, name, s) == IF s = "" THEN item ELSE With(item, name, [S |-> s])

MarshalUser(user) ==
  OmitEmpty(
    OmitEmpty(
      [Username |-> MarshalString(user.Username),
       Email |-> MarshalString(user.Email),
       PasswordHash |-> MarshalBytes(user.PasswordHash)],
      "Image", user.Image),
    "Bio", user.Bio)

UnmarshalUser(item) ==
  [Username |-> UnmarshalString(item, "Username"),
   Email |-> UnmarshalString(item, "Email"),
   PasswordHash |-> UnmarshalBytes(item, "PasswordHash"),
   Image |-> UnmarshalString(item, "Image"),
   Bio |-> UnmarshalString(item, "Bio")]

MarshalEmailUser(emailUser) ==
  [Email |-> MarshalString(emailUser.Email),
   Username |-> MarshalString(emailUser.Username)]

UnmarshalEmailUser(item) ==
  [Email |-> UnmarshalString(item, "Email"),
   Username |-> UnmarshalString(item, "Username")]

(***************************************************************************)
(* The store.  db is the pair of tables, indexed by table name.            *)
(***************************************************************************)
UserTableName == "User"

EmailUserTableName == "EmailUser"

Database(users, emailUsers) == [User |-> users, EmailUser |-> emailUsers]

\* the key of an item of a table
StringKey(name, value) == [name |-> name, value |-> value]

\* GetItemByKey: found, and the item when found
GetItemByKey(db, tableName, key) ==
  IF key.value \in DOMAIN db[tableName]
  THEN [found |-> TRUE, item |-> db[tableName][key.value]]
  ELSE [found |-> FALSE, item |-> Empty]

\* attribute_exists(attr) / attribute_not_exists(attr) on the item under key
ConditionHolds(db, tableName, key, cond) ==
  LET present == /\ key.value \in DOMAIN db[tableName]
                 /\ cond.attr \in DOMAIN db[tableName][key.value]
  IN IF cond.fn = "attribute_exists" THEN present ELSE ~present

\* one SET or REMOVE clause of an update expression applied to an item
ApplyClause(item, clause) ==
  IF clause.action = "SET"
  THEN With(item, clause.name, clause.value)
  ELSE Without(item, clause.name)

RECURSIVE ApplyUpdateExpression(_, _, _)
ApplyUpdateExpression(item, clauses, i) ==
  IF i > Len(clauses) THEN item
  ELSE ApplyUpdateExpression(ApplyClause(item, clauses[i]), clauses, i + 1)

\* the effect of one transact item on the database
ApplyTransactItem(db, t) ==
  LET table == db[t.tableName] IN
  LET written ==
        CASE t.kind = "Put" -> With(table, t.key.value, t.item)
          [] t.kind = "Delete" -> Without(table, t.key.value)
          [] t.kind = "Update" ->
               With(table, t.key.value,
                    ApplyUpdateExpression(
                      IF t.key.value \in DOMAIN table
                      THEN table[t.key.value]
                      ELSE With(Empty, t.key.name, [S |-> t.key.value]),
                      t.update, 1))
  IN [db EXCEPT ![t.tableName] = written]

RECURSIVE ApplyTransactItems(_, _, _)
ApplyTransactItems(db, items, i) ==
  IF i > Len(items) THEN db
  ELSE ApplyTransactItems(ApplyTransactItem(db, items[i]), items, i + 1)

\* TransactWriteItems: every condition is evaluated on the state before the
\* transaction; all items are applied, or none is
TransactWriteItems(db, items) ==
  IF \A i \in 1..Len(items) :
       ConditionHolds(db, items[i].tableName, items[i].key, items[i].cond)
  THEN [err |-> NoError, db |-> ApplyTransactItems(db, items, 1)]
  ELSE [err |-> TransactionCanceled, db |-> db]

Put(tableName, keyName, item, cond) ==
  [kind |-> "Put", tableName |-> tableName,
   key |-> StringKey(keyName, UnmarshalString(item, keyName)),
   item |-> item, update |-> <<>>, cond |-> cond]

Delete(tableName, key, cond) ==
  [kind |-> "Delete", tableName |-> tableName, key |-> key,
   item |-> Empty, update |-> <<>>, cond |-> cond]

Update(tableName, key, cond, update) ==
  [kind |-> "Update", tableName |-> tableName, key |-> key,
   item |-> Empty, update |-> update, cond |-> cond]

AttributeNotExists(attr) == [fn |-> "attribute_not_exists", attr |-> attr]

AttributeExists(attr) == [fn |-> "attribute_exists", attr |-> attr]

(***************************************************************************)
(* model.User.Validate: username and email must not be blank.              *)
(***************************************************************************)
Validate(user) ==
  IF user.Username = "" THEN NewInputError("username", "can't be blank")
  ELSE IF user.Email = "" THEN NewInputError("email", "can't be blank")
  ELSE NoError

(***************************************************************************)
(* PutUser                                                                 *)
(***************************************************************************)
\* PutUserTransaction with the email-user record naming the email twice
PutUserTransactionSwapped(user) ==
  <<Put(UserTableName, "Username", MarshalUser(user),
        AttributeNotExists("Username")),
    Put(EmailUserTableName, "Email",
        MarshalEmailUser([Email |-> user.Email, Username |-> user.Email]),
        AttributeNotExists("Email"))>>

\* PutUserTransaction without the reservation of the email
PutUserTransactionNoEmailUser(user) ==
  <<Put(UserTableName, "Username", MarshalUser(user),
        AttributeNotExists("Username"))>>

\* PutUserTransaction with the condition of the email-user Put misspelt
PutUserTransactionEmailTypo(user) ==
  <<Put(UserTableName, "Username", MarshalUser(user),
        AttributeNotExists("Username")),
    Put(EmailUserTableName, "Email",
        MarshalEmailUser([Email |-> user.Email, Username |-> user.Username]),
        AttributeNotExists("Emial"))>>

\* PutUserTransaction with the condition of the user Put misspelt
PutUserTransactionUsernameTypo(user) ==
  <<Put(UserTableName, "Username", MarshalUser(user),
        AttributeNotExists("Usernmae")),
    Put(EmailUserTableName, "Email",
        MarshalEmailUser([Email |-> user.Email, Username |-> user.Username]),
        AttributeNotExists("Email"))>>

PutUserTransaction(user) ==
  <<Put(UserTableName, "Username", MarshalUser(user),
        AttributeNotExists("Username")),
    Put(EmailUserTableName, "Email",
        MarshalEmailUser([Email |-> user.Email, Username |-> user.Username]),
        AttributeNotExists("Email"))>>

\* PutUser writing the user record and the email-user record in two calls
PutUserTwoCalls(db, user) ==
  IF Validate(user) # NoError
  THEN [err |-> Validate(user), db |-> db, calls |-> 0]
  ELSE LET r1 == TransactWriteItems(db, <<PutUserTransaction(user)[1]>>)
           r2 == TransactWriteItems(r1.db, <<PutUserTransaction(user)[2]>>)
       IN IF r1.err # NoError
          THEN [err |-> r1.err, db |-> r1.db, calls |-> 1]
          ELSE [err |-> r2.err, db |-> r2.db, calls |-> 2]

PutUser(db, user) ==
  IF Validate(user) # NoError
  THEN [err |-> Validate(user), db |-> db, calls |-> 0]
  ELSE LET r == TransactWriteItems(db, PutUserTransaction(user))
       IN [err |-> r.err, db |-> r.db, calls |-> 1]

(***************************************************************************)
(* buildUserUpdateExpression: the SET and REMOVE clauses, in code order;   *)
(* the empty sequence is the empty expression (expr.Update() == nil).      *)
(***************************************************************************)
Set(name, value) == [action |-> "SET", name |-> name, value |-> value]

Remove(name) == [action |-> "REMOVE", name |-> name, value |-> NullAttr]

\* OptionalStringClause setting the empty value instead of removing the
\* attribute
OptionalStringClauseSetsEmpty(name, old, new) ==
  IF old # new THEN <<Set(name, MarshalString(new))>> ELSE <<>>

OptionalStringClause(name, old, new) ==
  IF old # new
  THEN IF new # "" THEN <<Set(name, MarshalString(new))>> ELSE <<Remove(name)>>
  ELSE <<>>

\* buildUserUpdateExpression without the clause of the email
buildUserUpdateExpressionNoEmail(old, new) ==
     (IF ~new.PasswordHash.isNil /\ ~BytesEqual(old.PasswordHash, new.PasswordHash)
      THEN <<Set("PasswordHash", MarshalBytes(new.PasswordHash))>> ELSE <<>>)
  \o OptionalStringClause("Image", old.Image, new.Image)
  \o OptionalStringClause("Bio", old.Bio, new.Bio)

\* buildUserUpdateExpression writing every field of the new user
buildUserUpdateExpressionAll(old, new) ==
  <<Set("Email", MarshalString(new.Email)),
    Set("PasswordHash", MarshalBytes(new.PasswordHash)),
    Set("Image", MarshalString(new.Image)),
    Set("Bio", MarshalString(new.Bio))>>

buildUserUpdateExpression(old, new) ==
     (IF old.Email # new.Email
      THEN <<Set("Email", MarshalString(new.Email))>> ELSE <<>>)
  \o (IF ~new.PasswordHash.isNil /\ ~BytesEqual(old.PasswordHash, new.PasswordHash)
      THEN <<Set("PasswordHash", MarshalBytes(new.PasswordHash))>> ELSE <<>>)
  \o OptionalStringClause("Image", old.Image, new.Image)
  \o OptionalStringClause("Bio", old.Bio, new.Bio)

IsUpdateBuilderEmpty(update) == Len(update) = 0

(***************************************************************************)
(* UpdateUser                                                              *)
(***************************************************************************)
\* EmailLinkItems without the release of the old email
EmailLinkItemsNoUnlink(old, new) ==
  IF old.Email # new.Email
  THEN <<Put(EmailUserTableName, "Email",
             MarshalEmailUser([Email |-> new.Email, Username |-> new.Username]),
             AttributeNotExists("Email"))>>
  ELSE <<>>

EmailLinkItems(old, new) ==
  IF old.Email # new.Email
  THEN <<Put(EmailUserTableName, "Email",
             MarshalEmailUser([Email |-> new.Email, Username |-> new.Username]),
             AttributeNotExists("Email")),
         Delete(EmailUserTableName, StringKey("Email", old.Email),
                AttributeExists("Email"))>>
  ELSE <<>>

\* UpdateUserTransaction whose Update of the user record does not require
\* the record to exist
UpdateUserTransactionUpsert(old, new) ==
  EmailLinkItems(old, new)
  \o <<Update(UserTableName, StringKey("Username", old.Username),
              AttributeNotExists(""),
              buildUserUpdateExpression(old, new))>>

UpdateUserTransaction(old, new) ==
  EmailLinkItems(old, new)
  \o <<Update(UserTableName, StringKey("Username", old.Username),
              AttributeExists("Username"),
              buildUserUpdateExpression(old, new))>>

\* UpdateUser updating the user record in a first transaction and swapping
\* the email link in a second one
UpdateUserTwoTransactions(db, old, new) ==
  IF Validate(new) # NoError
  THEN [err |-> Validate(new), db |-> db, calls |-> 0]
  ELSE IF IsUpdateBuilderEmpty(buildUserUpdateExpression(old, new))
  THEN [err |-> NoError, db |-> db, calls |-> 0]
  ELSE LET n == Len(UpdateUserTransaction(old, new))
           r1 == TransactWriteItems(db, <<UpdateUserTransaction(old, new)[n]>>)
           r2 == TransactWriteItems(r1.db, EmailLinkItems(old, new))
       IN IF r1.err # NoError
          THEN [err |-> r1.err, db |-> r1.db, calls |-> 1]
          ELSE IF EmailLinkItems(old, new) = <<>>
          THEN [err |-> NoError, db |-> r1.db, calls |-> 1]
          ELSE [err |-> r2.err, db |-> r2.db, calls |-> 1]

\* UpdateUser submitting its transaction also when the update expression is
\* empty
UpdateUserAlwaysSubmits(db, old, new) ==
  IF Validate(new) # NoError
  THEN [err |-> Validate(new), db |-> db, calls |-> 0]
  ELSE LET r == TransactWriteItems(db, UpdateUserTransaction(old, new))
       IN [err |-> r.err, db |-> r.db, calls |-> 1]

UpdateUser(db, old, new) ==
  IF Validate(new) # NoError
  THEN [err |-> Validate(new), db |-> db, calls |-> 0]
  ELSE IF IsUpdateBuilderEmpty(buildUserUpdateExpression(old, new))
  THEN [err |-> NoError, db |-> db, calls |-> 0]
  ELSE LET r == TransactWriteItems(db, UpdateUserTransaction(old, new))
       IN [err |-> r.err, db |-> r.db, calls |-> 1]

(***************************************************************************)
(* Lookups                                                                 *)
(***************************************************************************)
GetUserByUsername(db, username) ==
  LET r == GetItemByKey(db, UserTableName, StringKey("Username", username))
  IN IF ~r.found
     THEN [user |-> ZeroUser, err |-> NewInputError("username", "not found")]
     ELSE [user |-> UnmarshalUser(r.item), err |-> NoError]

GetUsernameByEmail(db, email) ==
  LET r == GetItemByKey(db, EmailUserTableName, StringKey("Email", email))
  IN IF ~r.found
     THEN [username |-> "", err |-> NewInputError("email", "not found")]
     ELSE [username |-> UnmarshalEmailUser(r.item).Username, err |-> NoError]

GetUserByEmail(db, email) ==
  IF email = ""
  THEN [user |-> ZeroUser, err |-> NewInputError("email", "can't be blank")]
  ELSE LET r == GetUsernameByEmail(db, email)
       IN IF r.err # NoError THEN [user |-> ZeroUser, err |-> r.err]
          ELSE IF r.username = ""
          THEN [user |-> ZeroUser, err |-> NewInputError("email", "not found")]
          ELSE GetUserByUsername(db, r.username)

\* VerifyAuthorization: the header names the user it was issued to; the
\* empty header does not verify
VerifyAuthorization(auth) ==
  IF auth = ""
  THEN [username |-> "", token |-> "", err |-> Unauthorized]
  ELSE [username |-> auth, token |-> auth, err |-> NoError]

GetCurrentUser(db, auth) ==
  LET v == VerifyAuthorization(auth)
  IN IF v.err # NoError THEN [user |-> ZeroUser, token |-> "", err |-> v.err]
     ELSE LET r == GetUserByUsername(db, v.username)
          IN IF r.err # NoError THEN [user |-> ZeroUser, token |-> "", err |-> r.err]
             ELSE [user |-> r.user, token |-> v.token, err |-> NoError]

(***************************************************************************)
(* GetUserListByUsername.  The keys of the batch get are taken from a Go   *)
(* map, whose iteration order is unspecified, and the store returns the    *)
(* items found in any order, split into any number of responses: keyOrder  *)
(* and itemOrder are orders of all usernames, size is the number of items  *)
(* of a response.                                                          *)
(***************************************************************************)
MaxListLen == 3

\* the members of a set in the order of a sequence
InOrder(order, set) == SelectSeq(order, LAMBDA x : x \in set)

\* BatchKeys with one key for each position of the input
BatchKeysPerInput(usernames, keyOrder) ==
  [i \in 1..Len(usernames) |-> StringKey("Username", usernames[i])]

\* the keys of the batch get: one for each member of usernameSet
BatchKeys(usernames, keyOrder) ==
  LET usernameSet == {usernames[i] : i \in 1..Len(usernames)}
      ordered == InOrder(keyOrder, usernameSet)
  IN [i \in 1..Len(ordered) |-> StringKey("Username", ordered[i])]

RECURSIVE Pages(_, _)
Pages(items, size) ==
  IF Len(items) = 0 THEN <<>>
  ELSE IF Len(items) <= size THEN <<items>>
  ELSE <<SubSeq(items, 1, size)>> \o Pages(SubSeq(items, size + 1, Len(items)), size)

\* BatchGetItems: the items stored under the keys, as a sequence of responses
BatchGetItems(db, tableName, keys, itemOrder, size) ==
  LET found == InOrder(itemOrder,
                       {keys[i].value : i \in 1..Len(keys)} \cap DOMAIN db[tableName])
  IN [responses |-> Pages([i \in 1..Len(found) |-> db[tableName][found[i]]], size),
      err |-> NoError]

\* usersByUsername after the items of one response
RECURSIVE UsersOfItems(_, _, _)
UsersOfItems(usersByUsername, items, i) ==
  IF i > Len(items) THEN usersByUsername
  ELSE UsersOfItems(With(usersByUsername, UnmarshalUser(items[i]).Username,
                         UnmarshalUser(items[i])),
                    items, i + 1)

\* usersByUsername after all responses
RECURSIVE UsersOfResponses(_, _, _)
UsersOfResponses(usersByUsername, responses, i) ==
  IF i > Len(responses) THEN usersByUsername
  ELSE UsersOfResponses(UsersOfItems(usersByUsername, responses[i], 1),
                        responses, i + 1)

\* UsersInOrder with the users found only, in the order of the keys
UsersFound(usernames, usersByUsername) ==
  LET found == SelectSeq(usernames, LAMBDA u : u \in DOMAIN usersByUsername)
  IN [i \in 1..Len(found) |-> usersByUsername[found[i]]]

\* the result: usersByUsername[username] for each username given, which is
\* the zero value when the map has no such key
UsersInOrder(usernames, usersByUsername) ==
  [i \in 1..Len(usernames) |->
     IF usernames[i] \in DOMAIN usersByUsername
     THEN usersByUsername[usernames[i]]
     ELSE ZeroUser]

GetUserListByUsername(db, usernames, keyOrder, itemOrder, size) ==
  IF Len(usernames) = 0
  THEN [users |-> <<>>, err |-> NoError, calls |-> 0, keys |-> <<>>]
  ELSE LET keys == BatchKeys(usernames, keyOrder)
           r == BatchGetItems(db, UserTableName, keys, itemOrder, size)
       IN [users |-> UsersInOrder(usernames, UsersOfResponses(Empty, r.responses, 1)),
           err |-> NoError, calls |-> 1, keys |-> keys]

(***************************************************************************)
(* Inputs                                                                  *)
(***************************************************************************)
\* service.Scrypt: the key derived from a password
Scrypt(password) ==
  Bytes(<<CHOOSE i \in 1..Cardinality(Passwords) : password = "p" \o ToString(i)>>)

\* model.ValidatePassword
ValidatePassword(password) ==
  IF password = "" THEN NewInputError("password", "can't be blank") ELSE NoError

PasswordHashes == {Scrypt(p) : p \in Passwords}

\* the users given to PutUser, valid or not
NewUsers ==
  [Username : Usernames \cup {""}, Email : Emails \cup {""},
   PasswordHash : {Scrypt("p1")}, Image : Images, Bio : Bios]

\* the bodies of the requests given to Handle, valid or not
RequestBodies ==
  [Email : Emails \cup {""}, Password : {"p1", ""},
   Image : Images, Bio : Bios]

\* the Authorization headers given to Handle, valid or not
Authorizations == Usernames \cup {""}

\* the inputs of concurrent callers: valid, and differing in username and email
RacingUsers ==
  [Username : Usernames, Email : Emails,
   PasswordHash : {Scrypt("p1")}, Image : {""}, Bio : {""}]

RacingBodies ==
  [Email : Emails, Password : {"p1"}, Image : {""}, Bio : {""}]

(***************************************************************************)
(* State                                                                   *)
(***************************************************************************)
db == Database(userTable, emailUserTable)

\* the call that returned last: the username and the email of its user
\* argument (of the new user, for UpdateUser), the error it returned and the
\* number of transactions it submitted to the store
Returned(op, user, err, calls) ==
  [op |-> op, username |-> user.Username, email |-> user.Email,
   err |-> err, calls |-> calls]

Init ==
  /\ userTable = Empty
  /\ emailUserTable = Empty
  /\ pc = [c \in Callers |-> "idle"]
  /\ oldUser = [c \in Callers |-> ZeroUser]
  /\ last = Returned("none", ZeroUser, NoError, 0)

(***************************************************************************)
(* Actions                                                                 *)
(***************************************************************************)
\* a call of service.PutUser
CreateUser(user) ==
  LET r == PutUser(db, user) IN
  /\ userTable' = r.db[UserTableName]
  /\ emailUserTable' = r.db[EmailUserTableName]
  /\ last' = Returned("PutUser", user, r.err, r.calls)
  /\ UNCHANGED <<pc, oldUser>>

\* Handle, up to the return of GetCurrentUser
HandleGetCurrentUser(c, auth) ==
  LET r == GetCurrentUser(db, auth) IN
  /\ pc[c] = "idle"
  /\ IF r.err # NoError
     THEN /\ last' = Returned("Handle", ZeroUser, Unauthorized, 0)
          /\ UNCHANGED <<pc, oldUser>>
     ELSE /\ pc' = [pc EXCEPT ![c] = "read"]
          /\ oldUser' = [oldUser EXCEPT ![c] = r.user]
          /\ UNCHANGED last
  /\ UNCHANGED <<userTable, emailUserTable>>

\* HandleNewUser taking the username from the request instead of the user
\* read
HandleNewUserRenamed(old, body) ==
  [Username |-> body.Email,
   Email |-> body.Email,
   PasswordHash |-> Scrypt(body.Password),
   Image |-> body.Image,
   Bio |-> body.Bio]

\* the user Handle builds from the user read and the request body
HandleNewUser(old, body) ==
  [Username |-> old.Username,
   Email |-> body.Email,
   PasswordHash |-> Scrypt(body.Password),
   Image |-> body.Image,
   Bio |-> body.Bio]

\* Handle, from the parsed request body to its response
HandleUpdateUser(c, body) ==
  /\ pc[c] = "read"
  /\ pc' = [pc EXCEPT ![c] = "idle"]
  /\ oldUser' = [oldUser EXCEPT ![c] = ZeroUser]
  /\ IF ValidatePassword(body.Password) # NoError
     THEN /\ last' = Returned("Handle", ZeroUser, ValidatePassword(body.Password), 0)
          /\ UNCHANGED <<userTable, emailUserTable>>
     ELSE LET r == UpdateUser(db, oldUser[c], HandleNewUser(oldUser[c], body))
          IN /\ userTable' = r.db[UserTableName]
             /\ emailUserTable' = r.db[EmailUserTableName]
             /\ last' = Returned("UpdateUser", HandleNewUser(oldUser[c], body),
                                 r.err, r.calls)

(***************************************************************************)
(* Spec: concurrent callers.  PutUser makes one call of the store; Handle  *)
(* makes two, the read of the current user and the transaction of          *)
(* UpdateUser, and other callers' calls come between them.                 *)
(***************************************************************************)
Next ==
  \/ \E user \in RacingUsers : CreateUser(user)
  \/ \E c \in Callers, auth \in Usernames : HandleGetCurrentUser(c, auth)
  \/ \E c \in Callers, body \in RacingBodies : HandleUpdateUser(c, body)

Spec == Init /\ [][Next]_vars

(***************************************************************************)
(* SpecSeq: calls executed one at a time.  A single caller runs each call  *)
(* to its return before the next call starts, so the user Handle gives to  *)
(* UpdateUser as oldUser is the record stored at that moment.              *)
(***************************************************************************)
NextSeq ==
  \/ pc[1] = "idle" /\ \E user \in NewUsers : CreateUser(user)
  \/ \E auth \in Authorizations : HandleGetCurrentUser(1, auth)
  \/ \E body \in RequestBodies : HandleUpdateUser(1, body)

SpecSeq == Init /\ [][NextSeq]_vars

(***************************************************************************)
(* SpecFetch: GetUserByEmail on every content of the two tables, also the  *)
(* contents in which an email-user record names a username that has no     *)
(* user record.                                                            *)
(***************************************************************************)
\* a call of service.GetUserByEmail
FetchUserByEmail(email) ==
  LET r == GetUserByEmail(db, email) IN
  /\ last' = Returned("GetUserByEmail",
                      [Username |-> r.user.Username, Email |-> email], r.err, 0)
  /\ UNCHANGED <<userTable, emailUserTable, pc, oldUser>>

PartialFunctions(keys, values) == UNION {[ks -> values] : ks \in SUBSET keys}

UserTables ==
  {t \in PartialFunctions(Usernames, {MarshalUser(user) : user \in RacingUsers}) :
     \A u \in DOMAIN t : UnmarshalUser(t[u]).Username = u}

EmailUserTables ==
  {t \in PartialFunctions(Emails,
                          {MarshalEmailUser([Email |-> e, Username |-> u]) :
                             e \in Emails, u \in Usernames}) :
     \A e \in DOMAIN t : UnmarshalEmailUser(t[e]).Email = e}

InitFetch ==
  /\ userTable \in UserTables
  /\ emailUserTable \in EmailUserTables
  /\ pc = [c \in Callers |-> "idle"]
  /\ oldUser = [c \in Callers |-> ZeroUser]
  /\ last = Returned("none", ZeroUser, NoError, 0)

NextFetch == \E email \in Emails \cup {""} : FetchUserByEmail(email)

SpecFetch == InitFetch /\ [][NextFetch]_vars

(***************************************************************************)
(* SpecUpdate: one call of service.UpdateUser, with every old user and     *)
(* every new user of the same username (or of a blank one), on every       *)
(* content of the tables that calls executed one at a time leave.  The     *)
(* old user is a record read before the call: it may differ from the       *)
(* record stored now.  The new password hash is nil, empty, equal to the   *)
(* old one or different from it.                                           *)
(***************************************************************************)
\* the password hashes of a new user: nil, []byte{}, and two keys
PasswordHashesGiven == {NilBytes, Bytes(<<>>)} \cup PasswordHashes

OldUsers ==
  [Username : Usernames, Email : Emails,
   PasswordHash : {Scrypt("p1")}, Image : Images, Bio : Bios]

\* the new users given along with old: the valid ones, and old without its
\* username and without its email
UpdatedUsers(old) ==
  [Username : {old.Username}, Email : Emails,
   PasswordHash : PasswordHashesGiven, Image : Images, Bio : Bios]
  \cup {[old EXCEPT !.Username = ""], [old EXCEPT !.Email = ""]}

\* the user records PutUser stores: image and bio both given, or neither
UsersPut ==
  {user \in [Username : Usernames, Email : Emails,
             PasswordHash : {Scrypt("p1")}, Image : Images, Bio : Bios] :
     (user.Image = "") = (user.Bio = "")}

\* the user tables in which no two records hold the same email
UserTablesPut ==
  {t \in PartialFunctions(Usernames, {MarshalUser(user) : user \in UsersPut}) :
     /\ \A u \in DOMAIN t : UnmarshalUser(t[u]).Username = u
     /\ \A u1, u2 \in DOMAIN t :
          UnmarshalUser(t[u1]).Email = UnmarshalUser(t[u2]).Email => u1 = u2}

\* the email-user table PutUser writes along with the user table
EmailUsersOf(users) ==
  [e \in {UnmarshalUser(users[u]).Email : u \in DOMAIN users} |->
     MarshalEmailUser(
       [Email |-> e,
        Username |-> CHOOSE u \in DOMAIN users : UnmarshalUser(users[u]).Email = e])]

InitUpdate ==
  /\ userTable \in UserTablesPut
  /\ emailUserTable = EmailUsersOf(userTable)
  /\ pc = [c \in Callers |-> "idle"]
  /\ oldUser = [c \in Callers |-> ZeroUser]
  /\ last = Returned("none", ZeroUser, NoError, 0)

\* a call of service.UpdateUser that returned: its arguments, the error
\* returned, the number of transactions submitted, the update expression
\* built and the items of the transaction submitted
ReturnedUpdate(old, new, r) ==
  [op |-> "UpdateUser", old |-> old, new |-> new,
   err |-> r.err, calls |-> r.calls,
   update |-> IF Validate(new) = NoError
              THEN buildUserUpdateExpression(old, new) ELSE <<>>,
   items |-> IF r.calls > 0 THEN UpdateUserTransaction(old, new) ELSE <<>>]

\* a call of service.UpdateUser
UpdateUserCall(old, new) ==
  LET r == UpdateUser(db, old, new) IN
  /\ last.op = "none"
  /\ userTable' = r.db[UserTableName]
  /\ emailUserTable' = r.db[EmailUserTableName]
  /\ last' = ReturnedUpdate(old, new, r)
  /\ UNCHANGED <<pc, oldUser>>

NextUpdate ==
  \E old \in OldUsers : \E new \in UpdatedUsers(old) : UpdateUserCall(old, new)

SpecUpdate == InitUpdate /\ [][NextUpdate]_vars

(***************************************************************************)
(* SpecBatch: calls of GetUserListByUsername, with every list of at most   *)
(* MaxListLen usernames, on every content of the tables that calls         *)
(* executed one at a time leave.                                           *)
(***************************************************************************)
UsernameLists == UNION {[1..n -> Usernames] : n \in 0..MaxListLen}

\* the orders of all usernames
Orders ==
  {order \in [1..Cardinality(Usernames) -> Usernames] :
     \A i, j \in 1..Cardinality(Usernames) : order[i] = order[j] => i = j}

\* a call of service.GetUserListByUsername that returned: its argument, the
\* users and the error returned, the number of batch gets and the keys of
\* the batch get
FetchUserList(usernames, keyOrder, itemOrder, size) ==
  LET r == GetUserListByUsername(db, usernames, keyOrder, itemOrder, size) IN
  /\ last' = [op |-> "GetUserListByUsername", usernames |-> usernames,
              users |-> r.users, err |-> r.err, calls |-> r.calls, keys |-> r.keys]
  /\ UNCHANGED <<userTable, emailUserTable, pc, oldUser>>

NextBatch ==
  \E usernames \in UsernameLists, keyOrder \in Orders, itemOrder \in Orders,
     size \in 1..Cardinality(Usernames) :
    FetchUserList(usernames, keyOrder, itemOrder, size)

SpecBatch == InitUpdate /\ [][NextBatch]_vars

(***************************************************************************)
(* Views of the state and of a step used by the properties.                *)
(***************************************************************************)
\* the store after the step
dbNext == Database(userTable', emailUserTable')

\* the user records stored, as Go values
StoredUsers == {UnmarshalUser(userTable[u]) : u \in DOMAIN userTable}

\* the step is a call of PutUser, with the user named in last'
IsPutUserStep ==
  /\ last'.op = "PutUser"
  /\ UNCHANGED <<pc, oldUser>>

\* the step is the call of UpdateUser by the Handle of caller c, with
\* oldUser[c] as the old user and the new user named in last'
IsUpdateUserStep(c) ==
  /\ pc[c] = "read"
  /\ pc'[c] = "idle"
  /\ last'.op = "UpdateUser"

StoreUnchanged == UNCHANGED <<userTable, emailUserTable>>

(***************************************************************************)
(* C1  Email uniqueness: in every reachable state of the concurrent        *)
(* callers, where each UpdateUser gets as oldUser a record read before     *)
(* (possibly stale), no two user records hold the same email.              *)
(***************************************************************************)
EmailUnique ==
  \A u1, u2 \in DOMAIN userTable :
    UnmarshalUser(userTable[u1]).Email = UnmarshalUser(userTable[u2]).Email => u1 = u2

(***************************************************************************)
(* C2  Projection consistency: with calls executed one at a time from      *)
(* empty tables, a projection record (email E -> username U) exists if and *)
(* only if exactly one user record has email E, and that record has        *)
(* username U.                                                             *)
(***************************************************************************)
UsersWithEmail(e) == {user \in StoredUsers : user.Email = e}

ProjectionConsistent ==
  /\ \A e \in DOMAIN emailUserTable :
       /\ Cardinality(UsersWithEmail(e)) = 1
       /\ \A user \in UsersWithEmail(e) :
            /\ UnmarshalEmailUser(emailUserTable[e]) =
                 [Email |-> e, Username |-> user.Username]
            /\ user.Username \in DOMAIN userTable
            /\ UnmarshalUser(userTable[user.Username]) = user
  /\ \A user \in StoredUsers : user.Email \in DOMAIN emailUserTable
  /\ \A u \in DOMAIN userTable : UnmarshalUser(userTable[u]).Username = u

\* two users are stored and the last call moved one of them to a new email
ProjectionConsistentWitness ==
  /\ Cardinality(DOMAIN userTable) = 2
  /\ last.op = "UpdateUser"
  /\ last.err = NoError
  /\ last.calls = 1
  /\ last.email \in DOMAIN emailUserTable
  /\ UnmarshalEmailUser(emailUserTable[last.email]).Username = last.username
  /\ Cardinality(DOMAIN emailUserTable) = 2

(***************************************************************************)
(* C4  PutUser with an email that has a projection record and a username   *)
(* that has no user record fails with the store's condition failure, and   *)
(* leaves both tables as they were: no user record for the username.       *)
(***************************************************************************)
CreateEmailTakenFails ==
  [][(/\ IsPutUserStep
      /\ last'.username # ""
      /\ last'.username \notin DOMAIN userTable
      /\ last'.email \in DOMAIN emailUserTable)
     => /\ last'.err = TransactionCanceled
        /\ StoreUnchanged
        /\ last'.username \notin DOMAIN userTable']_vars

\* a PutUser was refused for its email alone
CreateEmailTakenWitness ==
  /\ last.op = "PutUser"
  /\ last.err = TransactionCanceled
  /\ last.username # ""
  /\ last.username \notin DOMAIN userTable
  /\ last.email \in DOMAIN emailUserTable

(***************************************************************************)
(* C5  PutUser with a username that has a user record and an email that    *)
(* has no projection record fails with the store's condition failure, does *)
(* not overwrite the user record and creates no projection record for the  *)
(* email.                                                                  *)
(***************************************************************************)
CreateUsernameTakenFails ==
  [][(/\ IsPutUserStep
      /\ last'.username \in DOMAIN userTable
      /\ last'.email # ""
      /\ last'.email \notin DOMAIN emailUserTable)
     => /\ last'.err = TransactionCanceled
        /\ userTable' = userTable
        /\ last'.email \notin DOMAIN emailUserTable'
        /\ emailUserTable' = emailUserTable]_vars

\* a PutUser was refused for its username alone
CreateUsernameTakenWitness ==
  /\ last.op = "PutUser"
  /\ last.err = TransactionCanceled
  /\ last.username \in DOMAIN userTable
  /\ last.email # ""
  /\ last.email \notin DOMAIN emailUserTable

(***************************************************************************)
(* C3  Update atomicity: an UpdateUser that changes the email, by any      *)
(* caller and with any (possibly stale) oldUser, either puts the new       *)
(* projection, deletes the old projection and sets the email of the user   *)
(* record, all three, or fails and changes nothing in either table.        *)
(***************************************************************************)
EmailChangeApplied(username, oldEmail, newEmail) ==
  /\ newEmail \in DOMAIN emailUserTable'
  /\ UnmarshalEmailUser(emailUserTable'[newEmail]) =
       [Email |-> newEmail, Username |-> username]
  /\ oldEmail \notin DOMAIN emailUserTable'
  /\ username \in DOMAIN userTable'
  /\ UnmarshalUser(userTable'[username]).Email = newEmail

UpdateAtomic ==
  [][\A c \in Callers :
       (IsUpdateUserStep(c) /\ oldUser[c].Email # last'.email)
       => \/ /\ last'.err = NoError
             /\ EmailChangeApplied(oldUser[c].Username, oldUser[c].Email, last'.email)
          \/ /\ last'.err # NoError
             /\ StoreUnchanged]_vars

\* an email-changing UpdateUser was cancelled while another user holds the
\* email it asked for
UpdateAtomicWitness ==
  /\ last.op = "UpdateUser"
  /\ last.err = TransactionCanceled
  /\ last.calls = 1
  /\ last.email \in DOMAIN emailUserTable
  /\ UnmarshalEmailUser(emailUserTable[last.email]).Username # last.username
  /\ last.username \in DOMAIN userTable
  /\ UnmarshalUser(userTable[last.username]).Email # last.email

(***************************************************************************)
(* C6  PutUser of a valid user whose username has no user record and whose *)
(* email has no projection record succeeds, and right after it             *)
(* GetUserByUsername and GetUserByEmail both succeed and return the user   *)
(* that was given to PutUser.                                              *)
(***************************************************************************)
CreateThenFetch ==
  [][\A user \in NewUsers :
       (/\ IsPutUserStep
        /\ user.Username = last'.username
        /\ user.Email = last'.email
        /\ CreateUser(user)
        /\ Validate(user) = NoError
        /\ user.Username \notin DOMAIN userTable
        /\ user.Email \notin DOMAIN emailUserTable)
       => /\ last'.err = NoError
          /\ GetUserByUsername(dbNext, user.Username) = [user |-> user, err |-> NoError]
          /\ GetUserByEmail(dbNext, user.Email) = [user |-> user, err |-> NoError]]_vars

\* a PutUser succeeded for a user with an image and a bio, next to another user
CreateThenFetchWitness ==
  /\ last.op = "PutUser"
  /\ last.err = NoError
  /\ Cardinality(DOMAIN userTable) = 2
  /\ GetUserByEmail(db, last.email).err = NoError
  /\ GetUserByEmail(db, last.email).user.Username = last.username
  /\ GetUserByEmail(db, last.email).user.Image # ""
  /\ GetUserByEmail(db, last.email).user.Bio # ""

(***************************************************************************)
(* C7  After a successful UpdateUser that changes the email from A to B,   *)
(* given the stored record as oldUser, GetUserByEmail(A) fails with        *)
(* "email not found", GetUserByEmail(B) returns the user, now with email   *)
(* B, and it is the record GetUserByUsername returns for the username.     *)
(***************************************************************************)
UpdateEmailThenFetch ==
  [][\A c \in Callers :
       (/\ IsUpdateUserStep(c)
        /\ last'.err = NoError
        /\ oldUser[c].Email # last'.email
        /\ GetUserByUsername(db, oldUser[c].Username) = [user |-> oldUser[c], err |-> NoError])
       => /\ GetUserByEmail(dbNext, oldUser[c].Email) =
               [user |-> ZeroUser, err |-> NewInputError("email", "not found")]
          /\ GetUserByEmail(dbNext, last'.email).err = NoError
          /\ GetUserByEmail(dbNext, last'.email).user.Username = oldUser[c].Username
          /\ GetUserByEmail(dbNext, last'.email).user.Email = last'.email
          /\ GetUserByEmail(dbNext, last'.email) =
               GetUserByUsername(dbNext, oldUser[c].Username)]_vars

\* an UpdateUser moved a user to an email while the other emails are one
\* free and one held by another user
UpdateEmailThenFetchWitness ==
  /\ last.op = "UpdateUser"
  /\ last.err = NoError
  /\ last.calls = 1
  /\ GetUserByEmail(db, last.email).err = NoError
  /\ GetUserByEmail(db, last.email).user.Username = last.username
  /\ Cardinality(DOMAIN userTable) = 2
  /\ \E e \in Emails : GetUserByEmail(db, e).err = NewInputError("email", "not found")

(***************************************************************************)
(* C8  Of two PutUser calls that race for the same username or the same    *)
(* email, made one right after the other in either order, at most one      *)
(* succeeds; the one that fails gets the store's condition failure; and    *)
(* the loser that comes second leaves the store as the winner made it.     *)
(***************************************************************************)
ValidNames(call) == call.username # "" /\ call.email # ""

CreateRace ==
  [][(/\ IsPutUserStep
      /\ last.op = "PutUser"
      /\ ValidNames(last)
      /\ ValidNames(last')
      /\ (last.username = last'.username \/ last.email = last'.email))
     => /\ ~(last.err = NoError /\ last'.err = NoError)
        /\ last.err \in {NoError, TransactionCanceled}
        /\ last'.err \in {NoError, TransactionCanceled}
        /\ last'.err = TransactionCanceled => StoreUnchanged
        /\ last.err = NoError =>
             /\ last'.err = TransactionCanceled
             /\ DOMAIN userTable' = DOMAIN userTable
             /\ DOMAIN emailUserTable' = DOMAIN emailUserTable
             /\ UnmarshalUser(userTable'[last.username]).Email = last.email
             /\ UnmarshalEmailUser(emailUserTable'[last.email]).Username = last.username]_vars

\* the second of two PutUser calls for one email and two usernames lost
CreateRaceWitness ==
  /\ last.op = "PutUser"
  /\ last.err = TransactionCanceled
  /\ last.email \in DOMAIN emailUserTable
  /\ last.username \notin DOMAIN userTable
  /\ Cardinality(DOMAIN userTable) = 1
  /\ Cardinality(DOMAIN emailUserTable) = 1

(***************************************************************************)
(* C9  Stale-snapshot updates do not overwrite: when the stored user       *)
(* record is no longer the oldUser the caller read, the transaction that   *)
(* UpdateUser submits fails with the store's condition failure and writes  *)
(* nothing.                                                                *)
(***************************************************************************)
StaleUpdateRejected ==
  [][\A c \in Callers :
       (/\ IsUpdateUserStep(c)
        /\ last'.calls = 1
        /\ GetUserByUsername(db, oldUser[c].Username).user # oldUser[c])
       => /\ last'.err = TransactionCanceled
          /\ StoreUnchanged]_vars

(***************************************************************************)
(* C10  GetUserByEmail(E), when the projection record of E names a         *)
(* username that has no user record, fails with a data-integrity failure   *)
(* that is neither success nor an input (not-found) error; when E has no   *)
(* projection record it fails with an input error for the field email.     *)
(***************************************************************************)
Dangling(email) ==
  /\ email \in DOMAIN emailUserTable
  /\ UnmarshalEmailUser(emailUserTable[email]).Username \notin DOMAIN userTable

FetchSurfacesDangling ==
  last.op = "GetUserByEmail" =>
    /\ Dangling(last.email) => last.err.type \notin {"nil", "InputError"}
    /\ last.email \notin DOMAIN emailUserTable =>
         /\ last.err.type = "InputError"
         /\ last.err.field = "email"


(***************************************************************************)
(* Views of a call of UpdateUser in SpecUpdate.                            *)
(***************************************************************************)
\* the step is a call of UpdateUser, with the arguments named in last'
IsUpdateUserCall == last.op = "none" /\ last'.op = "UpdateUser"

\* the clauses of an update expression that name an attribute
ClausesOf(update, name) ==
  {update[i] : i \in {j \in 1..Len(update) : update[j].name = name}}

\* the diff policy finds no field of new differing from old
NoFieldDiffers(old, new) ==
  /\ old.Email = new.Email
  /\ old.Image = new.Image
  /\ old.Bio = new.Bio
  /\ new.PasswordHash.isNil \/ old.PasswordHash.bytes = new.PasswordHash.bytes

(***************************************************************************)
(* C11  No-op update: a call of UpdateUser whose new user is valid and has *)
(* the email, the image and the bio of the old user, and a password hash   *)
(* that is absent or byte-equal to the old one, submits no transaction,    *)
(* returns no error and leaves both tables unchanged.                      *)
(***************************************************************************)
UpdateNoOp ==
  [][(/\ IsUpdateUserCall
      /\ Validate(last'.new) = NoError
      /\ NoFieldDiffers(last'.old, last'.new))
     => /\ last'.calls = 0
        /\ last'.items = <<>>
        /\ last'.err = NoError
        /\ StoreUnchanged]_vars

\* a no-op update of a stored user returned: its new password hash is absent
\* and the record stored differs from the old user given
UpdateNoOpWitness ==
  /\ last.op = "UpdateUser"
  /\ Validate(last.new) = NoError
  /\ NoFieldDiffers(last.old, last.new)
  /\ last.new.PasswordHash.isNil
  /\ ~last.old.PasswordHash.isNil
  /\ last.new.Username \in DOMAIN userTable
  /\ UnmarshalUser(userTable[last.new.Username]) # last.old
  /\ last.calls = 0

\* the attributes of a user item
UserAttributes == {"Username", "Email", "PasswordHash", "Image", "Bio"}

\* the items hold the same value of the attribute, or both lack it
SameAttribute(item1, item2, name) ==
  /\ (name \in DOMAIN item1) = (name \in DOMAIN item2)
  /\ name \in DOMAIN item1 => item1[name] = item2[name]

\* the field of the attribute differs between the old and the new user
FieldDiffers(old, new, name) ==
  IF name = "PasswordHash"
  THEN old.PasswordHash.bytes # new.PasswordHash.bytes
  ELSE old[name] # new[name]

(***************************************************************************)
(* C12  Untouched fields are kept: the update expression UpdateUser builds *)
(* has a clause for an attribute only if the field differs between the old *)
(* and the new user (when only the bio differs, and is not empty, it is    *)
(* the one clause SET Bio); a call that returns no error leaves every      *)
(* attribute of the stored record that has no clause as it was stored      *)
(* before the call, also when that differs from the old user, and leaves   *)
(* every other user record as it was.                                      *)
(***************************************************************************)
UpdateKeepsUntouched ==
  [][IsUpdateUserCall =>
       LET old == last'.old
           new == last'.new
           update == last'.update
       IN /\ \A i \in 1..Len(update) :
               /\ update[i].name \in UserAttributes
               /\ FieldDiffers(old, new, update[i].name)
          /\ (/\ Validate(new) = NoError
              /\ \A name \in UserAttributes \ {"Bio"} : ~FieldDiffers(old, new, name)
              /\ old.Bio # new.Bio /\ new.Bio # "")
             => update = <<Set("Bio", [S |-> new.Bio])>>
          /\ last'.err = NoError
             => /\ DOMAIN userTable' = DOMAIN userTable
                /\ \A u \in DOMAIN userTable :
                     \A name \in UserAttributes :
                       (u # old.Username \/ ClausesOf(update, name) = {})
                       => SameAttribute(userTable[u], userTable'[u], name)]_vars

\* an update of the bio alone returned no error: the record stored has the
\* new bio, and an image that the old user given did not have
UpdateKeepsUntouchedWitness ==
  /\ last.op = "UpdateUser"
  /\ last.err = NoError
  /\ last.calls = 1
  /\ last.update = <<Set("Bio", [S |-> "bio"])>>
  /\ last.old.Image = ""
  /\ UnmarshalUser(userTable[last.old.Username]).Image = "img"
  /\ UnmarshalUser(userTable[last.old.Username]).Bio = "bio"

(***************************************************************************)
(* C13  Image and bio: for each of the two attributes, the update          *)
(* expression UpdateUser builds holds SET attribute = new value when the   *)
(* field differs between the old and the new user and the new value is not *)
(* empty, REMOVE attribute when it differs and the new value is empty, and *)
(* no clause when it does not differ; after a call with REMOVE that        *)
(* returns no error the stored record lacks the attribute and              *)
(* GetUserByUsername returns the field empty.                              *)
(***************************************************************************)
OptionalFieldPolicy ==
  [][(IsUpdateUserCall /\ Validate(last'.new) = NoError) =>
       LET old == last'.old
           new == last'.new
           update == last'.update
       IN \A name \in {"Image", "Bio"} :
            /\ (old[name] # new[name] /\ new[name] # "")
               => /\ ClausesOf(update, name) = {Set(name, [S |-> new[name]])}
                  /\ Cardinality({i \in 1..Len(update) : update[i].name = name}) = 1
            /\ (old[name] # new[name] /\ new[name] = "")
               => /\ ClausesOf(update, name) = {Remove(name)}
                  /\ Cardinality({i \in 1..Len(update) : update[i].name = name}) = 1
                  /\ last'.err = NoError
                     => /\ name \notin DOMAIN userTable'[old.Username]
                        /\ GetUserByUsername(dbNext, old.Username).err = NoError
                        /\ GetUserByUsername(dbNext, old.Username).user[name] = ""
            /\ old[name] = new[name] => ClausesOf(update, name) = {}]_vars

\* an update that removes the bio and sets the image returned no error: the
\* record stored has the image and lacks the bio
OptionalFieldPolicyWitness ==
  /\ last.op = "UpdateUser"
  /\ last.err = NoError
  /\ last.old.Bio = "bio" /\ last.new.Bio = ""
  /\ last.old.Image = "" /\ last.new.Image = "img"
  /\ Remove("Bio") \in ClausesOf(last.update, "Bio")
  /\ "Bio" \notin DOMAIN userTable[last.old.Username]
  /\ userTable[last.old.Username]["Image"] = [S |-> "img"]

(***************************************************************************)
(* C14  Password hash policy: the update expression UpdateUser builds      *)
(* holds SET PasswordHash exactly when the new hash is neither nil nor of  *)
(* length zero and differs byte for byte from the old one; it never holds  *)
(* REMOVE PasswordHash; and no call of UpdateUser leaves a stored record   *)
(* that had a password hash without one.                                   *)
(***************************************************************************)
PasswordHashPolicy ==
  [][(IsUpdateUserCall /\ Validate(last'.new) = NoError) =>
       LET old == last'.old
           new == last'.new
           update == last'.update
           given == ~new.PasswordHash.isNil /\ Len(new.PasswordHash.bytes) > 0
           differs == old.PasswordHash.bytes # new.PasswordHash.bytes
       IN /\ (given /\ differs)
             => ClausesOf(update, "PasswordHash")
                  = {Set("PasswordHash", [B |-> new.PasswordHash.bytes])}
          /\ ~(given /\ differs) => ClausesOf(update, "PasswordHash") = {}
          /\ Remove("PasswordHash") \notin ClausesOf(update, "PasswordHash")
          /\ \A u \in DOMAIN userTable :
               "B" \in DOMAIN userTable[u]["PasswordHash"]
               => /\ u \in DOMAIN userTable'
                  /\ "B" \in DOMAIN userTable'[u]["PasswordHash"]]_vars

(***************************************************************************)
(* C15  Batch fetch keeps order and multiplicity: GetUserListByUsername    *)
(* returns no error and a list as long as the list of usernames given, in  *)
(* which position i holds the stored record of the i-th username, or the   *)
(* zero user when that username has no record, whatever the order and the  *)
(* split in which the store returns the items.                             *)
(***************************************************************************)
FetchBatchOrdered ==
  last.op = "GetUserListByUsername" =>
    /\ last.err = NoError
    /\ Len(last.users) = Len(last.usernames)
    /\ \A i \in 1..Len(last.usernames) :
         last.users[i] =
           IF last.usernames[i] \in DOMAIN userTable
           THEN UnmarshalUser(userTable[last.usernames[i]])
           ELSE ZeroUser

\* a fetch of a stored username twice, then of a missing one, returned
FetchBatchOrderedWitness ==
  /\ last.op = "GetUserListByUsername"
  /\ Len(last.usernames) = 3
  /\ last.usernames[1] = last.usernames[2]
  /\ last.usernames[1] \in DOMAIN userTable
  /\ last.usernames[3] \notin DOMAIN userTable
  /\ last.users[1] = last.users[2]
  /\ last.users[1].Username = last.usernames[1]
  /\ last.users[3] = ZeroUser

(***************************************************************************)
(* C16  Batch fetch keys: GetUserListByUsername given the empty list       *)
(* returns the empty list without a call of the store; given a non-empty   *)
(* list it makes one batch get, whose keys are the distinct usernames      *)
(* given, each exactly once.                                               *)
(***************************************************************************)
FetchBatchKeys ==
  last.op = "GetUserListByUsername" =>
    /\ Len(last.usernames) = 0 => last.users = <<>> /\ last.calls = 0
    /\ Len(last.usernames) > 0 =>
         /\ last.calls = 1
         /\ \A i \in 1..Len(last.keys) : last.keys[i].name = "Username"
         /\ {last.keys[i].value : i \in 1..Len(last.keys)}
              = {last.usernames[i] : i \in 1..Len(last.usernames)}
         /\ \A i, j \in 1..Len(last.keys) :
              last.keys[i].value = last.keys[j].value => i = j

\* a fetch of a list that names a username twice and another one once
\* returned: the batch get had two keys
FetchBatchKeysWitness ==
  /\ last.op = "GetUserListByUsername"
  /\ Len(last.usernames) = 3
  /\ Cardinality({last.usernames[i] : i \in 1..3}) = 2
  /\ Len(last.keys) = 2
  /\ last.calls = 1

(***************************************************************************)
(* C17  Create conflict error: when the transaction of PutUser is          *)
(* cancelled because the username or the email is already present, the     *)
(* error PutUser returns is an InputError, not the error of the store.     *)
(***************************************************************************)
CreateConflictIsInputError ==
  (/\ last.op = "PutUser"
   /\ last.calls = 1
   /\ last.err # NoError)
  => /\ last.err.type = "InputError"
     /\ last.err # TransactionCanceled

\* the items of a transaction that write the email-user table
LinkItems(items, kind) ==
  {i \in 1..Len(items) :
     items[i].tableName = EmailUserTableName /\ items[i].kind = kind}

\* the items of a transaction that update a record of the user table
UserUpdateItems(items) ==
  {i \in 1..Len(items) :
     items[i].tableName = UserTableName /\ items[i].kind = "Update"}

(***************************************************************************)
(* C18  The email link and the email field move together: every            *)
(* transaction UpdateUser submits holds exactly one Update of the user     *)
(* record; if it holds the Put of the new email's link or the Delete of    *)
(* the old email's link it holds both, and the Update's expression holds   *)
(* SET Email = the new email; if it holds neither, the Update's expression *)
(* has no clause for Email.                                                *)
(***************************************************************************)
EmailLinkWithEmailSet ==
  [][(IsUpdateUserCall /\ last'.calls > 0) =>
       LET old == last'.old
           new == last'.new
           items == last'.items
           puts == LinkItems(items, "Put")
           deletes == LinkItems(items, "Delete")
       IN /\ Cardinality(UserUpdateItems(items)) = 1
          /\ \A i \in UserUpdateItems(items) :
               /\ items[i].key = StringKey("Username", old.Username)
               /\ (puts # {} \/ deletes # {})
                  => /\ Cardinality(puts) = 1 /\ Cardinality(deletes) = 1
                     /\ \A p \in puts : items[p].key = StringKey("Email", new.Email)
                     /\ \A d \in deletes : items[d].key = StringKey("Email", old.Email)
                     /\ ClausesOf(items[i].update, "Email")
                          = {Set("Email", [S |-> new.Email])}
               /\ (puts = {} /\ deletes = {})
                  => ClausesOf(items[i].update, "Email") = {}
          /\ Len(items) = Cardinality(puts) + Cardinality(deletes) + 1]_vars

\* an update that changes the email alone committed: its transaction held
\* the Put, the Delete and the Update with the one clause SET Email
EmailLinkWithEmailSetWitness ==
  /\ last.op = "UpdateUser"
  /\ last.err = NoError
  /\ last.calls = 1
  /\ Len(last.items) = 3
  /\ last.update = <<Set("Email", [S |-> last.new.Email])>>
  /\ last.new.Email \in DOMAIN emailUserTable
  /\ last.old.Email \notin DOMAIN emailUserTable

\* a condition of the transaction UpdateUser submits for (old, new) fails on
\* the tables: the new email is linked, the old email is not, or the old
\* user has no record
UpdatePreconditionFails(old, new) ==
  \/ old.Email # new.Email /\ new.Email \in DOMAIN emailUserTable
  \/ old.Email # new.Email /\ old.Email \notin DOMAIN emailUserTable
  \/ old.Username \notin DOMAIN userTable

(***************************************************************************)
(* C19  A failed update writes nothing: a call of UpdateUser whose new     *)
(* user is not valid, or whose transaction has a condition that fails (the *)
(* new email has an email-user record, the old email has none, or the old  *)
(* username has no user record), returns an error; every call that returns *)
(* an error, and every call for a username that has no user record, leaves *)
(* both tables as they were.                                               *)
(***************************************************************************)
FailedUpdateWritesNothing ==
  [][IsUpdateUserCall =>
       LET old == last'.old
           new == last'.new
       IN /\ Validate(new) # NoError => last'.err = Validate(new)
          /\ (/\ Validate(new) = NoError
              /\ ~NoFieldDiffers(old, new)
              /\ UpdatePreconditionFails(old, new))
             => last'.err # NoError
          /\ last'.err # NoError => StoreUnchanged
          /\ old.Username \notin DOMAIN userTable => StoreUnchanged]_vars

\* an update of the email of a username that has no user record returned
\* the error of the store: the old email is linked and the new one is free,
\* so the condition on the user record is the only one that failed
FailedUpdateWritesNothingWitness ==
  /\ last.op = "UpdateUser"
  /\ last.err = TransactionCanceled
  /\ last.old.Username \notin DOMAIN userTable
  /\ last.old.Email # last.new.Email
  /\ last.old.Email \in DOMAIN emailUserTable
  /\ last.new.Email \notin DOMAIN emailUserTable

(***************************************************************************)
(* C20  Usernames are immutable: under concurrent callers every user       *)
(* record's Username attribute is the key it is stored under; a call of    *)
(* UpdateUser by Handle builds no clause for Username, updates the record  *)
(* under the username of the user read, and leaves the set of usernames    *)
(* stored as it was; and when it commits a change of email, the email-user *)
(* record of the new email names the username of the one user record       *)
(* whose Email it set.                                                     *)
(***************************************************************************)
UsernameImmutable ==
  [][/\ \A u \in DOMAIN userTable' : UnmarshalUser(userTable'[u]).Username = u
     /\ \A c \in Callers :
          IsUpdateUserStep(c) =>
            /\ DOMAIN userTable' = DOMAIN userTable
            /\ \A body \in RacingBodies :
                 LET new == HandleNewUser(oldUser[c], body)
                     items == UpdateUserTransaction(oldUser[c], new)
                 IN (body.Email = last'.email /\ new.Username = last'.username) =>
                      /\ ClausesOf(buildUserUpdateExpression(oldUser[c], new),
                                   "Username") = {}
                      /\ \A i \in UserUpdateItems(items) :
                           items[i].key = StringKey("Username", oldUser[c].Username)
            /\ (last'.err = NoError /\ last'.calls = 1 /\ oldUser[c].Email # last'.email)
               => /\ last'.email \in DOMAIN emailUserTable'
                  /\ UnmarshalEmailUser(emailUserTable'[last'.email]).Username
                       = oldUser[c].Username
                  /\ UnmarshalUser(userTable'[oldUser[c].Username]).Email = last'.email
                  /\ \A u \in DOMAIN userTable :
                       u # oldUser[c].Username => userTable'[u] = userTable[u]]_vars

\* with two users stored, a change of email committed: the email-user record
\* of the new email names the user whose record holds that email
UsernameImmutableWitness ==
  /\ last.op = "UpdateUser"
  /\ last.err = NoError
  /\ last.calls = 1
  /\ Cardinality(DOMAIN userTable) = 2
  /\ last.username \in DOMAIN userTable
  /\ UnmarshalUser(userTable[last.username]).Email = last.email
  /\ last.email \in DOMAIN emailUserTable
  /\ UnmarshalEmailUser(emailUserTable[last.email]).Username = last.username
====
